---------------------------- MODULE Spec2Model ----------------------------
(***************************************************************************)
(* A model of the Gorilli action adapters of agentkit:                     *)
(*   createERC4626Vault  (actions/cdp/gorilli_create_vault.ts, and the     *)
(*                        mock of the same name in unnamed/part_000)       *)
(*   gorilli_trade       (unnamed/part_001)                                *)
(*   gorilliMemeTrade    (unnamed/part_002, first half)                    *)
(*   vaultInteraction    (unnamed/part_002, second half)                   *)
(*   getAllCdpActions / CDP_ACTIONS (unnamed/part_000, second half)        *)
(*                                                                         *)
(* Strings are TLA+ strings handled character by character (Len, SubSeq,   *)
(* \o), so that formatting, substring tests and the address pattern are    *)
(* computed as the code computes them.  JavaScript numbers are exact       *)
(* rationals plus NaN and the two infinities.                              *)
(***************************************************************************)
EXTENDS Integers, Sequences, FiniteSets, TLC

(***************************************************************************)
(* Bound: the number of handler invocations that may be in flight at once. *)
(***************************************************************************)
NumInv == 2

Slots == 1..NumInv

-----------------------------------------------------------------------------
(* JavaScript strings *)

\* String.prototype.includes
Includes(s, t) ==
    \E p \in 1..(Len(s) - Len(t) + 1) : SubSeq(s, p, p + Len(t) - 1) = t

CharAt(s, p) == SubSeq(s, p, p)

-----------------------------------------------------------------------------
(* JavaScript numbers: k = "fin" (num/den, den > 0), "nan" or "inf" (the   *)
(* sign in num).                                                           *)

Fin(n, d) == [k |-> "fin", num |-> n, den |-> d]
Whole(n)  == Fin(n, 1)
NaN       == [k |-> "nan", num |-> 0, den |-> 1]
PosInf    == [k |-> "inf", num |-> 1, den |-> 1]
NegInf    == [k |-> "inf", num |-> -1, den |-> 1]

\* a < b as JavaScript evaluates it (false whenever either side is NaN)
JsLess(a, b) ==
    IF a.k = "nan" \/ b.k = "nan" THEN FALSE
    ELSE IF a.k = "inf" THEN a.num < 0 /\ ~(b.k = "inf" /\ b.num < 0)
    ELSE IF b.k = "inf" THEN b.num > 0
    ELSE a.num * b.den < b.num * a.den

JsGreater(a, b) == JsLess(b, a)

\* !x for a number: true for 0 and NaN
JsFalsyNumber(v) == v.k = "nan" \/ (v.k = "fin" /\ v.num = 0)

RECURSIVE FracDigits(_, _)
FracDigits(r, d) ==
    IF r = 0 THEN "" ELSE ToString((r * 10) \div d) \o FracDigits((r * 10) % d, d)

\* Number::toString, as `${n}` renders a number
NumberToString(v) ==
    IF v.k = "nan" THEN "NaN"
    ELSE IF v.k = "inf" THEN (IF v.num < 0 THEN "-Infinity" ELSE "Infinity")
    ELSE LET a == IF v.num < 0 THEN 0 - v.num ELSE v.num
             body == ToString(a \div v.den)
                       \o (IF a % v.den = 0 THEN ""
                           ELSE "." \o FracDigits(a % v.den, v.den))
         IN  IF v.num < 0 THEN "-" \o body ELSE body

Digits == {"0", "1", "2", "3", "4", "5", "6", "7", "8", "9"}

DigitValue(c) ==
    CASE c = "0" -> 0 [] c = "1" -> 1 [] c = "2" -> 2 [] c = "3" -> 3
      [] c = "4" -> 4 [] c = "5" -> 5 [] c = "6" -> 6 [] c = "7" -> 7
      [] c = "8" -> 8 [] c = "9" -> 9

RECURSIVE DigitsValue(_, _)
DigitsValue(s, n) ==
    IF n = 0 THEN 0 ELSE DigitsValue(s, n - 1) * 10 + DigitValue(CharAt(s, n))

\* Number(s) for a string: "" is 0, a run of decimal digits is its value,
\* "Infinity" is Infinity, and a string that is no numeric literal is NaN.
\* (Signs, fractions, exponents, radix prefixes and surrounding white space,
\* which Number also reads, do not occur in the inputs enumerated below.)
StringToNumber(s) ==
    IF s = "" THEN Whole(0)
    ELSE IF \A p \in 1..Len(s) : CharAt(s, p) \in Digits THEN Whole(DigitsValue(s, Len(s)))
    ELSE IF s = "Infinity" THEN PosInf
    ELSE NaN

\* new Decimal(s) accepts: decimal.js throws "[DecimalError] Invalid argument: "
\* for a string that is no numeric literal, the empty string included.
DecimalAccepts(s) ==
    \/ s # "" /\ \A p \in 1..Len(s) : CharAt(s, p) \in Digits
    \/ s = "Infinity"

-----------------------------------------------------------------------------
(* Thrown values: an Error (name, message) or any other value, kept as the *)
(* string that String(value) gives.                                        *)

Err(n, m)   == [isError |-> TRUE, name |-> n, message |-> m]
NonError(s) == [isError |-> FALSE, name |-> "", message |-> s]

\* `${error}`: Error.prototype.toString for an Error, String(value) otherwise
ErrorToString(e) ==
    IF ~e.isError THEN e.message
    ELSE IF e.message = "" THEN e.name
    ELSE e.name \o ": " \o e.message

-----------------------------------------------------------------------------
(* Regular expressions of the shape the schemas use: optional ^ and $      *)
(* anchors around a sequence of atoms, each a character class repeated an  *)
(* exact number of times.                                                  *)

HexClass ==
    Digits \cup {"a", "b", "c", "d", "e", "f", "A", "B", "C", "D", "E", "F"}

\* the pattern without its $ anchor
ADDRESS_REGEX_NoEndAnchor ==
    [anchorStart |-> TRUE, anchorEnd |-> FALSE,
     atoms |-> << [class |-> {"0"}, count |-> 1],
                  [class |-> {"x"}, count |-> 1],
                  [class |-> HexClass, count |-> 40] >>]

\* /^0x[a-fA-F0-9]{40}$/
ADDRESS_REGEX ==
    [anchorStart |-> TRUE, anchorEnd |-> TRUE,
     atoms |-> << [class |-> {"0"}, count |-> 1],
                  [class |-> {"x"}, count |-> 1],
                  [class |-> HexClass, count |-> 40] >>]

\* The position after matching atoms k.. of `atoms` at position p of s; 0 when
\* they do not match there.
RECURSIVE MatchAtoms(_, _, _, _)
MatchAtoms(atoms, k, s, p) ==
    IF k > Len(atoms) THEN p
    ELSE LET a == atoms[k]
         IN  IF /\ p + a.count - 1 <= Len(s)
                /\ \A q \in p..(p + a.count - 1) : CharAt(s, q) \in a.class
             THEN MatchAtoms(atoms, k + 1, s, p + a.count)
             ELSE 0

\* RegExp.prototype.test
RegexTest(re, s) ==
    \E p \in (IF re.anchorStart THEN {1} ELSE 1..(Len(s) + 1)) :
        LET e == MatchAtoms(re.atoms, 1, s, p)
        IN  e # 0 /\ (re.anchorEnd => e = Len(s) + 1)

-----------------------------------------------------------------------------
(* zod checks.  An optional field is <<>> when absent and <<v>> when       *)
(* present.                                                                *)

\* z.number(): NaN is not a number for zod
ZNumber(v) == v.k # "nan"

\* .min(m) rejects v < m; .max(m) rejects v > m
ZMin(v, m) == ~JsLess(v, m)
ZMax(v, m) == ~JsGreater(v, m)

\* z.string().url(): the string parses as a URL, i.e. starts with a scheme
\* (a letter, then letters, digits, "+", "-" or ".") and a colon.
Letters ==
    {"a", "b", "c", "d", "e", "f", "g", "h", "i", "j", "k", "l", "m", "n", "o",
     "p", "q", "r", "s", "t", "u", "v", "w", "x", "y", "z"}

ZUrl(s) ==
    \E c \in 2..Len(s) :
        /\ CharAt(s, c) = ":"
        /\ CharAt(s, 1) \in Letters
        /\ \A q \in 1..(c - 1) : CharAt(s, q) \in Letters \cup Digits \cup {"+", "-", "."}

VAULT_ACTIONS ==
    {"deposit", "withdraw", "balance", "previewDeposit", "previewWithdraw",
     "totalAssets", "totalSupply"}

\* CreateVaultInput.safeParse(x).success
CreateVaultInput(x) ==
    /\ RegexTest(ADDRESS_REGEX, x.assetAddress)
    /\ RegexTest(ADDRESS_REGEX, x.feeRecipient)
    /\ ZNumber(x.depositFee) /\ ZMin(x.depositFee, Whole(0)) /\ ZMax(x.depositFee, Whole(100))
    /\ ZNumber(x.withdrawalFee) /\ ZMin(x.withdrawalFee, Whole(0))
    /\ ZMax(x.withdrawalFee, Whole(100))

\* GorilliTradeInput: amount is z.custom<Amount>() with no check, the asset
\* ids are any strings
GorilliTradeInput(x) == TRUE

\* the schema with .min(0) for .min(0.1)
GorilliMemeTradeInput_MinZero(x) ==
    /\ x.action \in {"BUY", "SELL"}
    /\ ZNumber(x.slippagePercentage)
    /\ ZMin(x.slippagePercentage, Whole(0))
    /\ ZMax(x.slippagePercentage, Whole(100))

\* GorilliMemeTradeInput
GorilliMemeTradeInput(x) ==
    /\ x.action \in {"BUY", "SELL"}
    /\ ZNumber(x.slippagePercentage)
    /\ ZMin(x.slippagePercentage, Fin(1, 10))
    /\ ZMax(x.slippagePercentage, Whole(100))

\* VaultActionInput
VaultActionInput(x) ==
    /\ RegexTest(ADDRESS_REGEX, x.vault_address)
    /\ ZUrl(x.rpc_url)
    /\ x.action \in VAULT_ACTIONS
    /\ \A v \in {x.amount[p] : p \in 1..Len(x.amount)} : ZNumber(v)
    /\ \A a \in {x.user_address[p] : p \in 1..Len(x.user_address)} :
           RegexTest(ADDRESS_REGEX, a)

-----------------------------------------------------------------------------
(* Constants of the handlers *)

VAULT_ADDRESS == "0xc6827ce6d60a13a20a86dcac8c9e6d0f84497345"
BRETT_ADDRESS == "0x532f27101965dd16442e59d40670faf5ebb142e4"
USDC_ADDRESS  == "0x833589fcd6edb6e08f4c7c32d4f71b54bda02913"

\* seconds added to the current time for the trade deadline
DEADLINE_SECONDS == 600

\* SDK requests that change chain state; the others wait or read.
StateChanging == {"deploy", "createTrade", "invokeContract", "deposit", "withdraw"}

Call(m, a) == [method |-> m, args |-> a]

-----------------------------------------------------------------------------
(* What an invocation ends with: a returned string, or a rejection of its  *)
(* promise with a thrown value.  "invalid" is an input the schema refused, *)
(* for which the handler never ran.  cause is << >> for a success.         *)

NoError     == Err("", "")
NoResult    == [type |-> "none", text |-> "", error |-> NoError, cause |-> << >>]
Returned(t) == [type |-> "returned", text |-> t, error |-> NoError, cause |-> << >>]
Rejected(e) == [type |-> "rejected", text |-> "", error |-> e, cause |-> << >>]
Invalid     == [type |-> "invalid", text |-> "", error |-> NoError, cause |-> << >>]

\* History: the result r of an invocation that failed, with the value e that
\* was thrown or rejected inside it.
Because(r, e) == [r EXCEPT !.cause = << e >>]

\* A response of the SDK: up to three strings (an address; a transaction hash;
\* an amount, a hash and a link).
Resp(a, b, c) == [a |-> a, b |-> b, c |-> c]
NoResp == Resp("", "", "")

\* What an invocation observed of its environment, in order: the clock, and
\* each awaited SDK promise fulfilled with a value or rejected with an error.
ObsNow(t)  == [what |-> "now", value |-> NoResp, error |-> NoError, now |-> t]
ObsOk(v)   == [what |-> "fulfilled", value |-> v, error |-> NoError, now |-> 0]
ObsFail(e) == [what |-> "rejected", value |-> NoResp, error |-> e, now |-> 0]

-----------------------------------------------------------------------------
(* createERC4626Vault: its strings *)

\* the success template with the fee recipient's line left out
CreateVaultSuccess_NoFeeRecipient(x, vaultAddress) ==
    "Successfully deployed ERC-4626 Vault:"
      \o "\n      Name: " \o x.name
      \o "\n      Symbol: " \o x.symbol
      \o "\n      Vault Address: " \o vaultAddress
      \o "\n      Asset Address: " \o x.assetAddress
      \o "\n      Deposit Fee: " \o NumberToString(x.depositFee) \o "%"
      \o "\n      Withdrawal Fee: " \o NumberToString(x.withdrawalFee) \o "%"

\* the template literal of the success return
CreateVaultSuccess(x, vaultAddress) ==
    "Successfully deployed ERC-4626 Vault:"
      \o "\n      Name: " \o x.name
      \o "\n      Symbol: " \o x.symbol
      \o "\n      Vault Address: " \o vaultAddress
      \o "\n      Asset Address: " \o x.assetAddress
      \o "\n      Fee Recipient: " \o x.feeRecipient
      \o "\n      Deposit Fee: " \o NumberToString(x.depositFee) \o "%"
      \o "\n      Withdrawal Fee: " \o NumberToString(x.withdrawalFee) \o "%"

\* the catch block as the mock of part_000 has it: the message is dropped
CreateVaultCatch_NoMessage(error) ==
    Rejected(Err("Error", "Failed to deploy ERC-4626 Vault: "))

\* the catch block: rethrows with the prefix
CreateVaultCatch(error) ==
    LET errorMessage == IF error.isError THEN error.message ELSE "Unknown error"
    IN  Rejected(Err("Error", "Failed to deploy ERC-4626 Vault: " \o errorMessage))

\* the mock of part_000: the success template (its catch block is not reached:
\* nothing in its try block throws for an input of the schema)
CreateVaultMockSuccess(x) ==
    "Successfully created ERC-4626 Vault:"
      \o "\n      Name: " \o x.name
      \o "\n      Symbol: " \o x.symbol
      \o "\n      Asset Address: " \o x.assetAddress
      \o "\n      Fee Recipient: " \o x.feeRecipient
      \o "\n      Deposit Fee: " \o NumberToString(x.depositFee) \o "%"
      \o "\n      Withdrawal Fee: " \o NumberToString(x.withdrawalFee) \o "%"

\* !privateKey
KeyMissing(key) == key = <<>> \/ key = <<"">>

-----------------------------------------------------------------------------
(* gorilli_trade: its strings *)

GorilliTradeSuccess(x, r) ==
    "Gorilli - Traded " \o NumberToString(x.amount) \o " of " \o x.fromAssetId
      \o " for " \o r.a \o " of " \o x.toAssetId \o "."
      \o "\nTransaction hash for the trade: " \o r.b
      \o "\nTransaction link for the trade: " \o r.c

GorilliTradeCatch(error) ==
    Returned("Error trading assets: " \o ErrorToString(error))

-----------------------------------------------------------------------------
(* gorilliMemeTrade: its computations and strings *)

TokenOut(action) == IF action = "BUY" THEN BRETT_ADDRESS ELSE USDC_ADDRESS

\* Math.floor(Date.now() / 1000) + 600
Deadline(nowMs) == (nowMs \div 1000) + DEADLINE_SECONDS

\* Math.floor(Number(amountIn) * (1 - slippagePercentage / 100)), as a number.
\* The slippage is finite here (the schema bounds it).  NaN times anything is
\* NaN; Infinity times 0 is NaN, times a positive factor Infinity.  On the
\* finite inputs enumerated below the double-precision product has the same
\* floor as the exact one.
MinAmountOutNumber(amountIn, slippagePercentage) ==
    LET n == StringToNumber(amountIn)
        s == slippagePercentage
        \* 1 - s/100 == (100 * s.den - s.num) / (100 * s.den)
        fnum == 100 * s.den - s.num
        fden == 100 * s.den
    IN  IF n.k = "nan" THEN NaN
        ELSE IF n.k = "inf" THEN
            (IF fnum = 0 THEN NaN
             ELSE IF (fnum > 0) = (n.num > 0) THEN PosInf ELSE NegInf)
        ELSE Whole((n.num * fnum) \div (n.den * fden))

\* BigInt(v) throws a RangeError for a number that is not an integer
BigIntThrows(v) == v.k # "fin" \/ v.num % v.den # 0

BigIntError(v) ==
    Err("RangeError",
        "The number " \o NumberToString(v)
          \o " cannot be converted to a BigInt because it is not an integer")

DecimalError(amountIn) == Err("Error", "[DecimalError] Invalid argument: " \o amountIn)

MemeTradeSuccess(x, minAmountOut, hash) ==
    "Successfully executed " \o x.action \o " trade. Transaction hash: " \o hash
      \o ". Input amount: " \o x.amountIn
      \o ", Minimum output amount: " \o NumberToString(minAmountOut)

MemeTradeCatch(error) ==
    Returned("Error executing trade: "
               \o (IF error.isError THEN error.message ELSE "Unknown error"))

-----------------------------------------------------------------------------
(* vaultInteraction: its checks and strings *)

Present(opt) == opt # <<>>

\* !amount: undefined or 0;  !user_address: undefined or ""
AmountFalsy(x) == ~Present(x.amount) \/ JsFalsyNumber(x.amount[1])
UserFalsy(x)   == ~Present(x.user_address) \/ x.user_address[1] = ""

\* The error a case of the switch throws before calling the contract; <<>>
\* when it calls.
VaultMissingParam(x) ==
    CASE x.action = "deposit" /\ (AmountFalsy(x) \/ UserFalsy(x)) ->
             << Err("Error", "Amount and user address required for deposits") >>
      [] x.action = "withdraw" /\ (AmountFalsy(x) \/ UserFalsy(x)) ->
             << Err("Error", "Amount and user address required for withdrawals") >>
      [] x.action = "balance" /\ UserFalsy(x) ->
             << Err("Error", "User address required for balance queries") >>
      [] x.action = "previewDeposit" /\ AmountFalsy(x) ->
             << Err("Error", "Amount required for deposit preview") >>
      [] x.action = "previewWithdraw" /\ AmountFalsy(x) ->
             << Err("Error", "Amount required for withdrawal preview") >>
      [] x.action \notin VAULT_ACTIONS ->
             << Err("Error", "Unsupported action: " \o x.action) >>
      [] OTHER -> << >>

\* The contract call of each case
VaultCall(x) ==
    CASE x.action = "deposit"  -> Call("deposit", << x.amount[1], x.user_address[1] >>)
      [] x.action = "withdraw" ->
             Call("withdraw", << x.amount[1], x.user_address[1], x.user_address[1] >>)
      [] x.action = "balance"  -> Call("balanceOf", << x.user_address[1] >>)
      [] x.action = "previewDeposit"  -> Call("previewDeposit", << x.amount[1] >>)
      [] x.action = "previewWithdraw" -> Call("previewWithdraw", << x.amount[1] >>)
      [] x.action = "totalAssets" -> Call("totalAssets", << >>)
      [] x.action = "totalSupply" -> Call("totalSupply", << >>)

\* The return of each case; v is depositTx.hash, withdrawTx.hash or the
\* value's toString()
VaultSuccess(x, v) ==
    CASE x.action = "deposit"  -> "Deposit transaction submitted: " \o v
      [] x.action = "withdraw" -> "Withdrawal transaction submitted: " \o v
      [] x.action = "balance"  -> "User vault share balance: " \o v
      [] x.action = "previewDeposit"  -> "Expected shares for deposit: " \o v
      [] x.action = "previewWithdraw" -> "Expected assets for withdrawal: " \o v
      [] x.action = "totalAssets" -> "Total assets in vault: " \o v
      [] x.action = "totalSupply" -> "Total vault shares in circulation: " \o v

\* the catch block testing for the gas message before the balance message
VaultInteractionCatch_GasFirst(error) ==
    IF error.isError THEN
        IF Includes(error.message, "gas required exceeds allowance")
        THEN Returned("Error: Transaction would fail - gas estimation failed")
        ELSE IF Includes(error.message, "insufficient balance")
        THEN Returned("Error: Insufficient balance for the requested operation")
        ELSE IF Includes(error.message, "network")
        THEN Returned("Error: RPC connection failed - please check your connection and try again")
        ELSE Returned("Error: " \o error.message)
    ELSE Returned("An unknown error occurred")

VaultInteractionCatch(error) ==
    IF error.isError THEN
        IF Includes(error.message, "insufficient balance")
        THEN Returned("Error: Insufficient balance for the requested operation")
        ELSE IF Includes(error.message, "gas required exceeds allowance")
        THEN Returned("Error: Transaction would fail - gas estimation failed")
        ELSE IF Includes(error.message, "network")
        THEN Returned("Error: RPC connection failed - please check your connection and try again")
        ELSE Returned("Error: " \o error.message)
    ELSE Returned("An unknown error occurred")

-----------------------------------------------------------------------------
(* The inputs and environments enumerated.  An enumeration P gives the     *)
(* inputs offered to each action's schema, the wallet networks, the values *)
(* of the PRIVATE_KEY environment variable, and what the SDK may answer.   *)

AddrA == "0x833589fcd6edb6e08f4c7c32d4f71b54bda02913"
AddrB == "0xAbCdEF0123456789abcdef0123456789ABCDEF01"

AddressCandidates ==
    { AddrA, AddrB,
      "0x833589fcd6edb6e08f4c7c32d4f71b54bda0291",
      "0x833589fcd6edb6e08f4c7c32d4f71b54bda029130",
      "833589fcd6edb6e08f4c7c32d4f71b54bda02913",
      "00833589fcd6edb6e08f4c7c32d4f71b54bda02913",
      "0X833589fcd6edb6e08f4c7c32d4f71b54bda02913",
      "0x833589fcd6edb6e08f4c7c32d4f71b54bda0291g",
      " 0x833589fcd6edb6e08f4c7c32d4f71b54bda02913",
      "0x833589fcd6edb6e08f4c7c32d4f71b54bda02913\n",
      "" }

FeeCandidates ==
    { Whole(0), Fin(5, 2), Whole(100),
      Whole(-1), Fin(-1, 10), Fin(1001, 10), Whole(101), NaN, PosInf, NegInf }

SlippageCandidates ==
    { Fin(1, 10), Whole(1), Whole(100),
      Whole(0), Fin(1, 20), Fin(1001, 10), NaN, PosInf }

BaseVault ==
    [name |-> "My DeFi Vault", symbol |-> "MDV", assetAddress |-> AddrA,
     feeRecipient |-> AddrB, depositFee |-> Fin(5, 2), withdrawalFee |-> Whole(0)]

WideVaultInputs ==
    {[BaseVault EXCEPT !.assetAddress = a] : a \in AddressCandidates}
      \cup {[BaseVault EXCEPT !.feeRecipient = a] : a \in AddressCandidates}
      \cup {[BaseVault EXCEPT !.depositFee = f] : f \in FeeCandidates}
      \cup {[BaseVault EXCEPT !.withdrawalFee = f] : f \in FeeCandidates}

NarrowVaultInputs ==
    { BaseVault, [BaseVault EXCEPT !.assetAddress = "0x833589"] }

WideTradeInputs ==
    [amount : {Whole(1), Fin(1, 2)}, fromAssetId : {"eth"},
     toAssetId : {"usdc", BRETT_ADDRESS}]

NarrowTradeInputs ==
    { [amount |-> Whole(1), fromAssetId |-> "eth", toAssetId |-> "usdc"] }

WideMemeInputs ==
    [action : {"BUY", "SELL", "HOLD"},
     amountIn : {"1000", "7", "abc", "", "Infinity"},
     slippagePercentage : SlippageCandidates]

NarrowMemeInputs ==
    { [action |-> "BUY",  amountIn |-> "1000", slippagePercentage |-> Whole(1)],
      [action |-> "SELL", amountIn |-> "abc",  slippagePercentage |-> Whole(1)],
      [action |-> "BUY",  amountIn |-> "",     slippagePercentage |-> Fin(1, 10)] }

RpcUrl == "https://sepolia.base.org"

BaseVaultAction ==
    [vault_address |-> AddrA, rpc_url |-> RpcUrl, action |-> "deposit",
     amount |-> << Whole(5) >>, user_address |-> << AddrB >>]

WideVaultActionInputs ==
    [vault_address : {AddrA}, rpc_url : {RpcUrl}, action : VAULT_ACTIONS,
     amount : {<< >>, << Whole(0) >>, << Whole(5) >>, << NaN >>},
     user_address : {<< >>, << AddrB >>, << "0x833589" >>}]
      \cup {[BaseVaultAction EXCEPT !.vault_address = a] : a \in AddressCandidates}
      \cup {[BaseVaultAction EXCEPT !.user_address = << a >>] : a \in AddressCandidates}
      \cup { [BaseVaultAction EXCEPT !.rpc_url = "not a url"],
             [BaseVaultAction EXCEPT !.action = "mint"] }

NarrowVaultActionInputs ==
    { BaseVaultAction,
      [BaseVaultAction EXCEPT !.amount = << Whole(0) >>],
      [BaseVaultAction EXCEPT !.action = "totalAssets", !.amount = << >>,
                              !.user_address = << >>] }

WideErrors ==
    { Err("Error", "insufficient balance"),
      Err("Error", "execution reverted: insufficient balance for transfer"),
      Err("Error", "gas required exceeds allowance (0)"),
      Err("Error", "could not detect network"),
      Err("Error", "insufficient balance; gas required exceeds allowance"),
      Err("Error", "network: gas required exceeds allowance"),
      Err("Error", "network: insufficient balance"),
      Err("Error", "Insufficient Balance"),
      Err("Error", "nonce too low"),
      Err("TimeoutError", "Transaction timed out"),
      Err("Error", ""),
      NonError("aborted") }

NarrowErrors == { Err("Error", "nonce too low"), NonError("aborted") }

KeyValue == "0x0123456789abcdef0123456789abcdef0123456789abcdef0123456789abcdef"

Wide ==
    [vault |-> WideVaultInputs, trade |-> WideTradeInputs, meme |-> WideMemeInputs,
     vaultAction |-> WideVaultActionInputs,
     networks |-> {"base-mainnet", "ethereum-mainnet", "base-sepolia", "ethereum-sepolia"},
     keys |-> {<< >>, << "" >>, << KeyValue >>},
     errors |-> WideErrors,
     nows |-> {1999, 61000},
     addresses |-> {"0x1111111111111111111111111111111111111111"},
     hashes |-> {"0xaaaa", "0xbbbb"},
     trades |-> {Resp("2500", "0xaaaa", "https://basescan.org/tx/0xaaaa")},
     values |-> {"0xcccc", "42"}]

Narrow ==
    [vault |-> NarrowVaultInputs, trade |-> NarrowTradeInputs, meme |-> NarrowMemeInputs,
     vaultAction |-> NarrowVaultActionInputs,
     networks |-> {"base-mainnet", "base-sepolia"},
     keys |-> {<< >>, << KeyValue >>},
     errors |-> NarrowErrors,
     nows |-> {61000},
     addresses |-> {"0x1111111111111111111111111111111111111111"},
     hashes |-> {"0xaaaa"},
     trades |-> {Resp("2500", "0xaaaa", "https://basescan.org/tx/0xaaaa")},
     values |-> {"42"}]

-----------------------------------------------------------------------------
(* The action registry *)

\* the array literal of getAllCdpActions, by class
ActionClasses ==
    << "GetWalletDetailsAction", "DeployNftAction", "DeployTokenAction",
       "GetBalanceAction", "MintNftAction", "RegisterBasenameAction",
       "RequestFaucetFundsAction", "TradeAction", "TransferAction", "WrapEthAction",
       "CreateERC4626VaultAction", "GorilliTradeAction", "GorilliMemeTradeAction" >>

\* the actions of ./defi/wow, concatenated to the list at module load
WOW_ACTIONS == << "WowBuyTokenAction", "WowCreateTokenAction", "WowSellTokenAction" >>

\* the `name` field of an action; the classes defined outside these files keep
\* their class as a stand-in for it
ActionName(class) ==
    CASE class = "CreateERC4626VaultAction" -> "gorilli_create_erc4626_vault"
      [] class = "GorilliTradeAction"       -> "gorilli_trade"
      [] class = "GorilliMemeTradeAction"   -> "gorilli_trade_meme"
      [] OTHER -> class

Names(classes) == [p \in 1..Len(classes) |-> ActionName(classes[p])]

-----------------------------------------------------------------------------
(* State *)

VARIABLES
    kind,         \* per invocation: the handler invoked ("none" before)
    input,        \* per invocation: its args
    network,      \* per invocation: the network of the wallet passed to it
    pc,           \* per invocation: "idle", "start", the await it is at, "done"
    calls,        \* per invocation: the SDK requests it has issued, in order
    obs,          \* per invocation: what it observed of clock and SDK, in order
    result,       \* per invocation: what it ended with
    PRIVATE_KEY,  \* process.env.PRIVATE_KEY: <<>> when unset
    CDP_ACTIONS,  \* the exported registry, by action name
    retrieved,    \* the array the last getAllCdpActions call returned
    tools         \* the toolkit list vaultInteractionTool is pushed to

vars == << kind, input, network, pc, calls, obs, result,
           PRIVATE_KEY, CDP_ACTIONS, retrieved, tools >>

shared == << PRIVATE_KEY, CDP_ACTIONS, retrieved, tools >>

NoInput == [none |-> TRUE]

Kinds ==
    {"createERC4626Vault", "createERC4626VaultMock", "gorilli_trade",
     "gorilliMemeTrade", "vaultInteraction"}

InputsOf(P, k) ==
    CASE k \in {"createERC4626Vault", "createERC4626VaultMock"} -> P.vault
      [] k = "gorilli_trade"    -> P.trade
      [] k = "gorilliMemeTrade" -> P.meme
      [] k = "vaultInteraction" -> P.vaultAction

\* argsSchema.safeParse(x).success of the action
Schema(k, x) ==
    CASE k \in {"createERC4626Vault", "createERC4626VaultMock"} -> CreateVaultInput(x)
      [] k = "gorilli_trade"    -> GorilliTradeInput(x)
      [] k = "gorilliMemeTrade" -> GorilliMemeTradeInput(x)
      [] k = "vaultInteraction" -> VaultActionInput(x)

\* Module load: the registry is built, the vault tool is pushed, nothing runs.
InitWith(P) ==
    /\ kind = [i \in Slots |-> "none"]
    /\ input = [i \in Slots |-> NoInput]
    /\ network = [i \in Slots |-> ""]
    /\ pc = [i \in Slots |-> "idle"]
    /\ calls = [i \in Slots |-> << >>]
    /\ obs = [i \in Slots |-> << >>]
    /\ result = [i \in Slots |-> NoResult]
    /\ PRIVATE_KEY \in P.keys
    /\ CDP_ACTIONS = Names(ActionClasses \o WOW_ACTIONS)
    /\ retrieved = << >>
    /\ tools = << "vault_interaction" >>

\* One step of invocation i: it moves to `to`, having issued the requests cs and
\* observed os, with result r.  Nothing else changes.
Advance(i, to, cs, os, r) ==
    /\ pc' = [pc EXCEPT ![i] = to]
    /\ calls' = [calls EXCEPT ![i] = calls[i] \o cs]
    /\ obs' = [obs EXCEPT ![i] = obs[i] \o os]
    /\ result' = [result EXCEPT ![i] = r]
    /\ UNCHANGED << kind, input, network, shared >>

At(i, k, where) == kind[i] = k /\ pc[i] \in where

-----------------------------------------------------------------------------
(* The agent framework calls an action: the args are parsed against the    *)
(* action's schema and the handler runs only when they pass.               *)

Invoke(i, P) ==
    /\ pc[i] = "idle"
    /\ \E k \in Kinds : \E x \in InputsOf(P, k) :
       \E n \in (IF k = "gorilli_trade" THEN P.networks ELSE {"base-mainnet"}) :
          /\ kind' = [kind EXCEPT ![i] = k]
          /\ input' = [input EXCEPT ![i] = x]
          /\ network' = [network EXCEPT ![i] = n]
          /\ IF Schema(k, x)
             THEN pc' = [pc EXCEPT ![i] = "start"] /\ UNCHANGED result
             ELSE /\ pc' = [pc EXCEPT ![i] = "done"]
                  /\ result' = [result EXCEPT ![i] = Invalid]
          /\ UNCHANGED << calls, obs, shared >>

-----------------------------------------------------------------------------
(* createERC4626Vault *)

\* From entry to the first await: the key is read, the wallet and factory are
\* built (the ethers constructors may throw) and deploy is requested.
CV_Start(i, P) ==
    /\ At(i, "createERC4626Vault", {"start"})
    /\ IF KeyMissing(PRIVATE_KEY)
       THEN LET e == Err("Error", "PRIVATE_KEY environment variable is not set")
            IN  Advance(i, "done", << >>, << >>, Because(CreateVaultCatch(e), e))
       ELSE \/ \E e \in P.errors :
                  Advance(i, "done", << >>, << ObsFail(e) >>, Because(CreateVaultCatch(e), e))
            \/ LET x == input[i]
               IN  Advance(i, "await_deploy",
                     << Call("deploy", << x.assetAddress, x.name, x.symbol, x.feeRecipient,
                                          x.depositFee, x.withdrawalFee >>) >>,
                     << ObsOk(NoResp) >>, NoResult)

CV_DeployFulfilled(i) ==
    /\ At(i, "createERC4626Vault", {"await_deploy"})
    /\ Advance(i, "await_waitForDeployment", << Call("waitForDeployment", << >>) >>,
               << ObsOk(NoResp) >>, NoResult)

CV_WaitFulfilled(i) ==
    /\ At(i, "createERC4626Vault", {"await_waitForDeployment"})
    /\ Advance(i, "await_getAddress", << Call("getAddress", << >>) >>,
               << ObsOk(NoResp) >>, NoResult)

CV_GetAddressFulfilled(i, P) ==
    /\ At(i, "createERC4626Vault", {"await_getAddress"})
    /\ \E vaultAddress \in P.addresses :
          Advance(i, "done", << >>, << ObsOk(Resp(vaultAddress, "", "")) >>,
                  Returned(CreateVaultSuccess(input[i], vaultAddress)))

\* An awaited promise rejects: the catch block
CV_Rejected(i, P) ==
    /\ At(i, "createERC4626Vault",
          {"await_deploy", "await_waitForDeployment", "await_getAddress"})
    /\ \E e \in P.errors :
          Advance(i, "done", << >>, << ObsFail(e) >>, Because(CreateVaultCatch(e), e))

\* the mock of part_000 returns at once
CVM_Start(i) ==
    /\ At(i, "createERC4626VaultMock", {"start"})
    /\ Advance(i, "done", << >>, << >>, Returned(CreateVaultMockSuccess(input[i])))

-----------------------------------------------------------------------------
(* gorilli_trade *)

\* The trade is requested whatever the wallet's network is.
GT_Start(i) ==
    /\ At(i, "gorilli_trade", {"start"})
    /\ LET x == input[i]
       IN  Advance(i, "await_createTrade",
                   << Call("createTrade", << x.amount, x.fromAssetId, x.toAssetId >>) >>,
                   << >>, NoResult)

GT_CreateTradeFulfilled(i) ==
    /\ At(i, "gorilli_trade", {"await_createTrade"})
    /\ Advance(i, "await_wait", << Call("wait", << >>) >>, << ObsOk(NoResp) >>, NoResult)

GT_WaitFulfilled(i, P) ==
    /\ At(i, "gorilli_trade", {"await_wait"})
    /\ \E r \in P.trades :
          Advance(i, "done", << >>, << ObsOk(r) >>,
                  Returned(GorilliTradeSuccess(input[i], r)))

\* the catch block requesting the trade again instead of returning
GT_Rejected_Retry(i, P) ==
    /\ At(i, "gorilli_trade", {"await_createTrade", "await_wait"})
    /\ \E e \in P.errors :
          LET x == input[i]
          IN  Advance(i, "await_createTrade",
                      << Call("createTrade", << x.amount, x.fromAssetId, x.toAssetId >>) >>,
                      << ObsFail(e) >>, NoResult)

GT_Rejected(i, P) ==
    /\ At(i, "gorilli_trade", {"await_createTrade", "await_wait"})
    /\ \E e \in P.errors :
          Advance(i, "done", << >>, << ObsFail(e) >>, Because(GorilliTradeCatch(e), e))

-----------------------------------------------------------------------------
(* gorilliMemeTrade *)

MemeCall(x, nowMs) ==
    Call("invokeContract",
         << VAULT_ADDRESS, "executeTrade", TokenOut(x.action), x.amountIn,
            MinAmountOutNumber(x.amountIn, x.slippagePercentage), Deadline(nowMs),
            x.amountIn, "eth" >>)

\* From entry to the first await.  minAmountOut is computed before the try
\* block: a RangeError of BigInt leaves the function uncaught.  new Decimal is
\* evaluated inside it, as an argument of invokeContract.
MT_Start(i, P) ==
    /\ At(i, "gorilliMemeTrade", {"start"})
    /\ \E nowMs \in P.nows :
          LET x == input[i]
              m == MinAmountOutNumber(x.amountIn, x.slippagePercentage)
          IN  IF BigIntThrows(m)
              THEN Advance(i, "done", << >>, << ObsNow(nowMs) >>,
                           Because(Rejected(BigIntError(m)), BigIntError(m)))
              ELSE IF ~DecimalAccepts(x.amountIn)
              THEN Advance(i, "done", << >>, << ObsNow(nowMs) >>,
                           Because(MemeTradeCatch(DecimalError(x.amountIn)),
                                   DecimalError(x.amountIn)))
              ELSE Advance(i, "await_invokeContract", << MemeCall(x, nowMs) >>,
                           << ObsNow(nowMs) >>, NoResult)

\* the handler returning its success string without awaiting invocation.wait()
MT_InvokeFulfilled_NoWait(i) ==
    /\ At(i, "gorilliMemeTrade", {"await_invokeContract"})
    /\ LET x == input[i]
       IN  Advance(i, "done", << >>, << ObsOk(Resp("0xaaaa", "", "")) >>,
             Returned(MemeTradeSuccess(x,
                        MinAmountOutNumber(x.amountIn, x.slippagePercentage), "0xaaaa")))

MT_InvokeFulfilled(i) ==
    /\ At(i, "gorilliMemeTrade", {"await_invokeContract"})
    /\ Advance(i, "await_wait", << Call("wait", << >>) >>, << ObsOk(NoResp) >>, NoResult)

MT_WaitFulfilled(i, P) ==
    /\ At(i, "gorilliMemeTrade", {"await_wait"})
    /\ \E hash \in P.hashes :
          LET x == input[i]
          IN  Advance(i, "done", << >>, << ObsOk(Resp(hash, "", "")) >>,
                Returned(MemeTradeSuccess(x,
                           MinAmountOutNumber(x.amountIn, x.slippagePercentage), hash)))

MT_Rejected(i, P) ==
    /\ At(i, "gorilliMemeTrade", {"await_invokeContract", "await_wait"})
    /\ \E e \in P.errors :
          Advance(i, "done", << >>, << ObsFail(e) >>, Because(MemeTradeCatch(e), e))

-----------------------------------------------------------------------------
(* vaultInteraction *)

VI_Start(i) ==
    /\ At(i, "vaultInteraction", {"start"})
    /\ LET x == input[i]
           missing == VaultMissingParam(x)
       IN  IF missing # << >>
           THEN Advance(i, "done", << >>, << >>,
                        Because(VaultInteractionCatch(missing[1]), missing[1]))
           ELSE Advance(i, "await_call", << VaultCall(x) >>, << >>, NoResult)

\* the handler keeping its arguments in a module-level variable, which the
\* latest vaultInteraction call overwrites
VI_Fulfilled_SharedArgs(i, P) ==
    /\ At(i, "vaultInteraction", {"await_call"})
    /\ \E v \in P.values :
          LET latest == CHOOSE j \in Slots :
                            /\ kind[j] = "vaultInteraction"
                            /\ \A k \in Slots : kind[k] = "vaultInteraction" => k <= j
          IN  Advance(i, "done", << >>, << ObsOk(Resp(v, "", "")) >>,
                      Returned(VaultSuccess(input[latest], v)))

VI_Fulfilled(i, P) ==
    /\ At(i, "vaultInteraction", {"await_call"})
    /\ \E v \in P.values :
          Advance(i, "done", << >>, << ObsOk(Resp(v, "", "")) >>,
                  Returned(VaultSuccess(input[i], v)))

VI_Rejected(i, P) ==
    /\ At(i, "vaultInteraction", {"await_call"})
    /\ \E e \in P.errors :
          Advance(i, "done", << >>, << ObsFail(e) >>, Because(VaultInteractionCatch(e), e))

-----------------------------------------------------------------------------
(* getAllCdpActions: builds and returns a new array *)

\* the array kept at module level and pushed to by every call
GetAllCdpActions_Push ==
    /\ CDP_ACTIONS' = CDP_ACTIONS \o Names(ActionClasses)
    /\ retrieved' = CDP_ACTIONS'
    /\ UNCHANGED << kind, input, network, pc, calls, obs, result, PRIVATE_KEY, tools >>

GetAllCdpActions ==
    /\ retrieved' = Names(ActionClasses)
    /\ UNCHANGED << kind, input, network, pc, calls, obs, result,
                    PRIVATE_KEY, CDP_ACTIONS, tools >>

-----------------------------------------------------------------------------
(* Specifications *)

Handler(i, P) ==
    \/ Invoke(i, P)
    \/ CV_Start(i, P)
    \/ CV_DeployFulfilled(i)
    \/ CV_WaitFulfilled(i)
    \/ CV_GetAddressFulfilled(i, P)
    \/ CV_Rejected(i, P)
    \/ CVM_Start(i)
    \/ GT_Start(i)
    \/ GT_CreateTradeFulfilled(i)
    \/ GT_WaitFulfilled(i, P)
    \/ GT_Rejected(i, P)
    \/ MT_Start(i, P)
    \/ MT_InvokeFulfilled(i)
    \/ MT_WaitFulfilled(i, P)
    \/ MT_Rejected(i, P)
    \/ VI_Start(i)
    \/ VI_Fulfilled(i, P)
    \/ VI_Rejected(i, P)

\* Invocations interleaved at their awaits, over the narrow enumeration.
Init == InitWith(Narrow)

Next == (\E i \in Slots : Handler(i, Narrow)) \/ GetAllCdpActions

Spec == Init /\ [][Next]_vars

\* One invocation at a time, over the wide enumeration of inputs and answers.
InitSolo == InitWith(Wide)

NextSolo == Handler(1, Wide) \/ GetAllCdpActions

SpecSolo == InitSolo /\ [][NextSolo]_vars

-----------------------------------------------------------------------------
(* The handlers read as sequential functions: what a handler of kind k,    *)
(* called with x while PRIVATE_KEY is key, requests of the SDK and ends    *)
(* with when the clock and the SDK answer os, in order.                    *)

Outcome(cs, r) == [calls |-> cs, result |-> r]

IsRejection(os, p) == os[p].what = "rejected"

AloneCreateVault(x, key, os) ==
    LET missing == Err("Error", "PRIVATE_KEY environment variable is not set")
        deploy == Call("deploy", << x.assetAddress, x.name, x.symbol, x.feeRecipient,
                                    x.depositFee, x.withdrawalFee >>)
        wait == Call("waitForDeployment", << >>)
        get == Call("getAddress", << >>)
        caught(p) == Because(CreateVaultCatch(os[p].error), os[p].error)
    IN  IF KeyMissing(key) THEN Outcome(<< >>, Because(CreateVaultCatch(missing), missing))
        ELSE IF IsRejection(os, 1) THEN Outcome(<< >>, caught(1))
        ELSE IF IsRejection(os, 2) THEN Outcome(<< deploy >>, caught(2))
        ELSE IF IsRejection(os, 3) THEN Outcome(<< deploy, wait >>, caught(3))
        ELSE IF IsRejection(os, 4) THEN Outcome(<< deploy, wait, get >>, caught(4))
        ELSE Outcome(<< deploy, wait, get >>,
                     Returned(CreateVaultSuccess(x, os[4].value.a)))

AloneCreateVaultMock(x) == Outcome(<< >>, Returned(CreateVaultMockSuccess(x)))

AloneGorilliTrade(x, os) ==
    LET create == Call("createTrade", << x.amount, x.fromAssetId, x.toAssetId >>)
        wait == Call("wait", << >>)
        caught(p) == Because(GorilliTradeCatch(os[p].error), os[p].error)
    IN  IF IsRejection(os, 1) THEN Outcome(<< create >>, caught(1))
        ELSE IF IsRejection(os, 2) THEN Outcome(<< create, wait >>, caught(2))
        ELSE Outcome(<< create, wait >>, Returned(GorilliTradeSuccess(x, os[2].value)))

AloneMemeTrade(x, os) ==
    LET m == MinAmountOutNumber(x.amountIn, x.slippagePercentage)
        invoke == MemeCall(x, os[1].now)
        wait == Call("wait", << >>)
        caught(p) == Because(MemeTradeCatch(os[p].error), os[p].error)
    IN  IF BigIntThrows(m) THEN Outcome(<< >>, Because(Rejected(BigIntError(m)), BigIntError(m)))
        ELSE IF ~DecimalAccepts(x.amountIn)
        THEN Outcome(<< >>, Because(MemeTradeCatch(DecimalError(x.amountIn)),
                                    DecimalError(x.amountIn)))
        ELSE IF IsRejection(os, 2) THEN Outcome(<< invoke >>, caught(2))
        ELSE IF IsRejection(os, 3) THEN Outcome(<< invoke, wait >>, caught(3))
        ELSE Outcome(<< invoke, wait >>, Returned(MemeTradeSuccess(x, m, os[3].value.a)))

AloneVaultInteraction(x, os) ==
    LET missing == VaultMissingParam(x)
    IN  IF missing # << >>
        THEN Outcome(<< >>, Because(VaultInteractionCatch(missing[1]), missing[1]))
        ELSE IF IsRejection(os, 1)
        THEN Outcome(<< VaultCall(x) >>,
                     Because(VaultInteractionCatch(os[1].error), os[1].error))
        ELSE Outcome(<< VaultCall(x) >>, Returned(VaultSuccess(x, os[1].value.a)))

RunAlone(k, x, key, os) ==
    CASE k = "createERC4626Vault"     -> AloneCreateVault(x, key, os)
      [] k = "createERC4626VaultMock" -> AloneCreateVaultMock(x)
      [] k = "gorilli_trade"          -> AloneGorilliTrade(x, os)
      [] k = "gorilliMemeTrade"       -> AloneMemeTrade(x, os)
      [] k = "vaultInteraction"       -> AloneVaultInteraction(x, os)

-----------------------------------------------------------------------------
(* Properties *)

Done(i)      == pc[i] = "done"
Ran(i)       == Done(i) /\ result[i].type # "invalid"
Failed(i)    == Ran(i) /\ result[i].cause # << >>
Succeeded(i) == Ran(i) /\ result[i].cause = << >>
Accepted(i)  == kind[i] # "none" /\ result[i].type # "invalid"
Refused(i)   == kind[i] # "none" /\ result[i].type = "invalid"

HasPrefix(s, t) == Len(s) >= Len(t) /\ SubSeq(s, 1, Len(t)) = t

\* the text a caller gets to read: the returned string, or the message of the
\* value its promise rejected with
ReportedText(r) == IF r.type = "returned" THEN r.text ELSE r.error.message

IsVaultKind(k) == k \in {"createERC4626Vault", "createERC4626VaultMock"}

\* C1: every failure of an invocation surfaces as a thrown Error with the
\* prefix 'Failed to deploy ERC-4626 Vault: ' (createERC4626Vault) or as a
\* returned string (the other three actions); nothing else leaves a handler.
C1_FailuresCaughtAtBoundary ==
    \A i \in Slots :
        Failed(i) =>
            IF IsVaultKind(kind[i])
            THEN /\ result[i].type = "rejected"
                 /\ result[i].error.isError
                 /\ HasPrefix(result[i].error.message, "Failed to deploy ERC-4626 Vault: ")
            ELSE result[i].type = "returned"

\* the three failures vaultInteraction recognises in an error message
RecognisedSubstrings ==
    {"insufficient balance", "gas required exceeds allowance", "network"}

Recognised(m) == \E t \in RecognisedSubstrings : Includes(m, t)

RecognisedReports ==
    {"Error: Insufficient balance for the requested operation",
     "Error: Transaction would fail - gas estimation failed",
     "Error: RPC connection failed - please check your connection and try again"}

\* C2 as stated: whenever an invocation fails on an Error, the text it reports
\* contains that error's message, whatever the message is.
C2_ReportContainsCause ==
    \A i \in Slots :
        Failed(i) /\ result[i].cause[1].isError =>
            Includes(ReportedText(result[i]), result[i].cause[1].message)

\* C2 amended: the reported text contains the message of the underlying Error,
\* except in vaultInteraction for a message containing 'insufficient balance',
\* 'gas required exceeds allowance' or 'network', for which one of the three
\* fixed descriptions is reported instead of the message.
C2_ReportContainsCauseUnlessRecognised ==
    \A i \in Slots :
        Failed(i) /\ result[i].cause[1].isError =>
            LET m == result[i].cause[1].message
            IN  IF kind[i] = "vaultInteraction" /\ Recognised(m)
                THEN ReportedText(result[i]) \in RecognisedReports
                ELSE Includes(ReportedText(result[i]), m)

\* an SDK error outside the three recognised ones was reported with its message
C2_Witness ==
    \E i \in Slots :
        /\ Failed(i)
        /\ kind[i] = "vaultInteraction"
        /\ result[i].cause[1] = Err("Error", "nonce too low")
        /\ result[i].text = "Error: nonce too low"

LastObs(i) == obs[i][Len(obs[i])]

\* C3 as stated: a successful summary contains every parameter supplied in the
\* call's input.
C3_SummaryContainsEveryParameter ==
    \A i \in Slots :
        Succeeded(i) =>
            LET x == input[i]
                t == result[i].text
            IN  CASE IsVaultKind(kind[i]) ->
                       /\ Includes(t, x.name) /\ Includes(t, x.symbol)
                       /\ Includes(t, x.assetAddress) /\ Includes(t, x.feeRecipient)
                       /\ Includes(t, NumberToString(x.depositFee))
                       /\ Includes(t, NumberToString(x.withdrawalFee))
                  [] kind[i] = "gorilli_trade" ->
                       /\ Includes(t, NumberToString(x.amount))
                       /\ Includes(t, x.fromAssetId) /\ Includes(t, x.toAssetId)
                  [] kind[i] = "gorilliMemeTrade" ->
                       /\ Includes(t, x.action) /\ Includes(t, x.amountIn)
                       /\ Includes(t, NumberToString(x.slippagePercentage))
                  [] kind[i] = "vaultInteraction" ->
                       /\ \A p \in 1..Len(x.amount) :
                              Includes(t, NumberToString(x.amount[p]))
                       /\ \A p \in 1..Len(x.user_address) :
                              Includes(t, x.user_address[p])

\* C3 amended: a successful summary of createERC4626Vault contains name,
\* symbol, assetAddress, feeRecipient, depositFee and withdrawalFee; of
\* gorilli_trade, amount, fromAssetId and toAssetId; of gorilliMemeTrade, action
\* and amountIn (the slippage only through the minimum output amount derived
\* from it); of vaultInteraction, the value the contract call returned and no
\* input parameter.
C3_SummaryContainsEchoedParameters ==
    \A i \in Slots :
        Succeeded(i) =>
            LET x == input[i]
                t == result[i].text
            IN  CASE IsVaultKind(kind[i]) ->
                       /\ Includes(t, x.name) /\ Includes(t, x.symbol)
                       /\ Includes(t, x.assetAddress) /\ Includes(t, x.feeRecipient)
                       /\ Includes(t, NumberToString(x.depositFee))
                       /\ Includes(t, NumberToString(x.withdrawalFee))
                  [] kind[i] = "gorilli_trade" ->
                       /\ Includes(t, NumberToString(x.amount))
                       /\ Includes(t, x.fromAssetId) /\ Includes(t, x.toAssetId)
                  [] kind[i] = "gorilliMemeTrade" ->
                       /\ Includes(t, x.action) /\ Includes(t, x.amountIn)
                       /\ Includes(t, NumberToString(
                              MinAmountOutNumber(x.amountIn, x.slippagePercentage)))
                  [] kind[i] = "vaultInteraction" ->
                       \E label \in {"Deposit transaction submitted: ",
                                     "Withdrawal transaction submitted: ",
                                     "User vault share balance: ",
                                     "Expected shares for deposit: ",
                                     "Expected assets for withdrawal: ",
                                     "Total assets in vault: ",
                                     "Total vault shares in circulation: "} :
                           t = label \o LastObs(i).value.a

\* a meme trade succeeded whose summary does not show its slippage of 0.1
C3_Witness ==
    \E i \in Slots :
        /\ Succeeded(i)
        /\ kind[i] = "gorilliMemeTrade"
        /\ input[i].slippagePercentage = Fin(1, 10)
        /\ ~Includes(result[i].text, "0.1")
        /\ Includes(result[i].text, input[i].amountIn)

HexDigitChars ==
    {"0", "1", "2", "3", "4", "5", "6", "7", "8", "9",
     "a", "b", "c", "d", "e", "f", "A", "B", "C", "D", "E", "F"}

\* '0x' followed by exactly 40 characters from [0-9a-fA-F]
WellFormedAddress(s) ==
    /\ Len(s) = 42
    /\ CharAt(s, 1) = "0" /\ CharAt(s, 2) = "x"
    /\ \A p \in 3..42 : CharAt(s, p) \in HexDigitChars

FeeInRange(v) == v.k = "fin" /\ 0 <= v.num /\ v.num <= 100 * v.den

SlippageInRange(v) == v.k = "fin" /\ v.den <= 10 * v.num /\ v.num <= 100 * v.den

AddressFields(k, x) ==
    CASE IsVaultKind(k) -> {x.assetAddress, x.feeRecipient}
      [] k = "vaultInteraction" ->
             {x.vault_address} \cup {x.user_address[p] : p \in 1..Len(x.user_address)}
      [] OTHER -> {}

\* the address arguments of an SDK request
AddressArgs(c) ==
    CASE c.method = "deploy"    -> {c.args[1], c.args[4]}
      [] c.method = "deposit"   -> {c.args[2]}
      [] c.method = "withdraw"  -> {c.args[2], c.args[3]}
      [] c.method = "balanceOf" -> {c.args[1]}
      [] OTHER -> {}

\* the checks of a schema on its fields that are no addresses
OtherFieldsPass(k, x) ==
    CASE IsVaultKind(k) -> FeeInRange(x.depositFee) /\ FeeInRange(x.withdrawalFee)
      [] k = "vaultInteraction" ->
             /\ ZUrl(x.rpc_url) /\ x.action \in VAULT_ACTIONS
             /\ \A p \in 1..Len(x.amount) : x.amount[p].k # "nan"
      [] OTHER -> TRUE

\* C4: an input passes validation only with every address field well formed,
\* an input whose other fields pass is refused only for an address field that
\* is not, and every address argument of an SDK request is well formed.
C4_AddressesValidated ==
    \A i \in Slots :
        IsVaultKind(kind[i]) \/ kind[i] = "vaultInteraction" =>
            LET fields == AddressFields(kind[i], input[i])
            IN  /\ Accepted(i) => \A a \in fields : WellFormedAddress(a)
                /\ Refused(i) /\ OtherFieldsPass(kind[i], input[i]) =>
                       \E a \in fields : ~WellFormedAddress(a)
                /\ \A p \in 1..Len(calls[i]) :
                       /\ \A a \in AddressArgs(calls[i][p]) : WellFormedAddress(a)
                       /\ kind[i] = "vaultInteraction" =>
                              WellFormedAddress(input[i].vault_address)

\* a vault deployment was requested with a mixed-case asset address
C4_Witness ==
    \E i \in Slots :
        /\ kind[i] = "createERC4626Vault"
        /\ calls[i] # << >>
        /\ calls[i][1].method = "deploy"
        /\ calls[i][1].args[1] = AddrB

\* C5: depositFee and withdrawalFee pass validation exactly when in [0, 100],
\* slippagePercentage exactly when in [0.1, 100], and no deployment or trade is
\* requested of the SDK with a fee or slippage outside those bounds.
C5_PercentagesValidated ==
    \A i \in Slots :
        LET x == input[i]
        IN  /\ IsVaultKind(kind[i]) =>
                 /\ Accepted(i) => FeeInRange(x.depositFee) /\ FeeInRange(x.withdrawalFee)
                 /\ Refused(i) /\ (\A a \in AddressFields(kind[i], x) : WellFormedAddress(a))
                        => ~(FeeInRange(x.depositFee) /\ FeeInRange(x.withdrawalFee))
                 /\ \A p \in 1..Len(calls[i]) :
                        calls[i][p].method = "deploy" =>
                            /\ FeeInRange(calls[i][p].args[5])
                            /\ FeeInRange(calls[i][p].args[6])
            /\ kind[i] = "gorilliMemeTrade" =>
                 /\ Accepted(i) => SlippageInRange(x.slippagePercentage)
                 /\ Refused(i) /\ x.action \in {"BUY", "SELL"}
                        => ~SlippageInRange(x.slippagePercentage)
                 /\ calls[i] # << >> => SlippageInRange(x.slippagePercentage)

\* a trade was requested at the lowest slippage the schema admits
C5_Witness ==
    \E i \in Slots :
        /\ kind[i] = "gorilliMemeTrade"
        /\ input[i].slippagePercentage = Fin(1, 10)
        /\ calls[i] # << >>
        /\ calls[i][1].method = "invokeContract"

Count(seq, v) == Cardinality({p \in 1..Len(seq) : seq[p] = v})

\* C6: an invocation issues at most one state-changing SDK request, and once an
\* awaited request or wait has failed it has ended with an error and issued
\* nothing further: the rejection is the last thing it observed.
C6_NoRetry ==
    \A i \in Slots :
        /\ Cardinality({p \in 1..Len(calls[i]) : calls[i][p].method \in StateChanging}) <= 1
        /\ \A p \in 1..Len(obs[i]) :
               obs[i][p].what = "rejected" =>
                   /\ p = Len(obs[i])
                   /\ Failed(i)
                   /\ result[i].cause = << obs[i][p].error >>

\* a trade whose createTrade request failed ended having issued that request only
C6_Witness ==
    \E i \in Slots :
        /\ kind[i] = "gorilli_trade"
        /\ Failed(i)
        /\ Len(calls[i]) = 1
        /\ calls[i][1].method = "createTrade"
        /\ LastObs(i).what = "rejected"

\* C7: whatever else ran meanwhile, a finished invocation has issued the SDK
\* requests and ended with the result that its handler, run alone on the same
\* input, environment and SDK answers, issues and ends with.
C7_IndependentOfOtherInvocations ==
    \A i \in Slots :
        Ran(i) =>
            LET alone == RunAlone(kind[i], input[i], PRIVATE_KEY, obs[i])
            IN  calls[i] = alone.calls /\ result[i] = alone.result

\* two invocations were in flight together and one of them has finished
C7_Witness ==
    \E i, j \in Slots :
        /\ i # j
        /\ Ran(i) /\ calls[i] # << >>
        /\ pc[j] \notin {"idle", "start", "done"}

\* the networks the prompt of gorilli_trade names as mainnet
IsMainnet(n) == n \in {"base-mainnet", "base", "ethereum-mainnet", "ethereum"}

\* C8: gorilli_trade never requests a trade for a wallet on a non-mainnet
\* network.
C8_NoTradeOffMainnet ==
    \A i \in Slots :
        kind[i] = "gorilli_trade" /\ ~IsMainnet(network[i]) =>
            \A p \in 1..Len(calls[i]) : calls[i][p].method # "createTrade"

\* C9: the registry is the list built at module load, with each of the three
\* Gorilli actions in it exactly once, whatever handlers and getAllCdpActions
\* calls have run.
C9_RegistryStatic ==
    /\ CDP_ACTIONS = Names(ActionClasses \o WOW_ACTIONS)
    /\ \A n \in {"gorilli_create_erc4626_vault", "gorilli_trade", "gorilli_trade_meme"} :
           Count(CDP_ACTIONS, n) = 1

\* getAllCdpActions has been called and a handler has run to its end
C9_Witness ==
    /\ retrieved # << >>
    /\ \E i \in Slots : Ran(i) /\ calls[i] # << >>

\* C10: vaultInteraction reports a caught Error with message m as the
\* insufficient-balance string if m contains 'insufficient balance', else the
\* gas-estimation string if m contains 'gas required exceeds allowance', else
\* the RPC string if m contains 'network', else 'Error: ' followed by m; and a
\* caught value that is no Error as 'An unknown error occurred'.
C10_VaultErrorMapping ==
    \A i \in Slots :
        kind[i] = "vaultInteraction" /\ Failed(i) =>
            LET e == result[i].cause[1]
                m == e.message
            IN  /\ result[i].type = "returned"
                /\ result[i].text =
                     CASE ~e.isError -> "An unknown error occurred"
                       [] e.isError /\ Includes(m, "insufficient balance") ->
                            "Error: Insufficient balance for the requested operation"
                       [] /\ e.isError /\ ~Includes(m, "insufficient balance")
                          /\ Includes(m, "gas required exceeds allowance") ->
                            "Error: Transaction would fail - gas estimation failed"
                       [] /\ e.isError /\ ~Includes(m, "insufficient balance")
                          /\ ~Includes(m, "gas required exceeds allowance")
                          /\ Includes(m, "network") ->
                            "Error: RPC connection failed - please check your connection and try again"
                       [] OTHER -> "Error: " \o m

\* an error naming both gas and balance was reported as insufficient balance
C10_Witness ==
    \E i \in Slots :
        /\ kind[i] = "vaultInteraction"
        /\ Failed(i)
        /\ Includes(result[i].cause[1].message, "gas required exceeds allowance")
        /\ Includes(result[i].cause[1].message, "insufficient balance")
        /\ result[i].text = "Error: Insufficient balance for the requested operation"

\* the parameters each vault action requires, and the contract method it calls
RequiresAmount(a) == a \in {"deposit", "withdraw", "previewDeposit", "previewWithdraw"}
RequiresUser(a)   == a \in {"deposit", "withdraw", "balance"}

RequiredSupplied(x) ==
    /\ RequiresAmount(x.action) => x.amount # << >>
    /\ RequiresUser(x.action) => x.user_address # << >>

ContractMethod(a) == IF a = "balance" THEN "balanceOf" ELSE a

\* C11: once vaultInteraction is past its parameter checks, it has called the
\* contract method of its action exactly once if every parameter the action
\* requires was supplied (whatever the amount), and otherwise has called
\* nothing and returned an error string naming the missing parameter.
C11_CallsIffRequiredSupplied ==
    \A i \in Slots :
        kind[i] = "vaultInteraction" /\ pc[i] \in {"await_call", "done"} /\ Accepted(i) =>
            LET x == input[i]
            IN  IF RequiredSupplied(x)
                THEN /\ Len(calls[i]) = 1
                     /\ calls[i][1].method = ContractMethod(x.action)
                ELSE /\ calls[i] = << >>
                     /\ result[i].type = "returned"
                     /\ HasPrefix(result[i].text, "Error: ")
                     /\ \/ ~RequiresAmount(x.action) \/ x.amount # << >>
                        \/ Includes(result[i].text, "Amount")
                     /\ \/ ~RequiresUser(x.action) \/ x.user_address # << >>
                        \/ Includes(result[i].text, "ser address")

Methods(cs) == [p \in 1..Len(cs) |-> cs[p].method]

AllFulfilled(os, from) == \A p \in from..Len(os) : os[p].what = "fulfilled"

IsSuccessString(t) ==
    \/ HasPrefix(t, "Successfully deployed")
    \/ HasPrefix(t, "Successfully executed")
    \/ HasPrefix(t, "Gorilli - Traded")

\* C12: createERC4626Vault has returned its 'Successfully deployed' string only
\* with deploy, waitForDeployment and getAddress requested in that order and
\* each fulfilled; gorilliMemeTrade and gorilli_trade have returned their
\* success string only with invokeContract (createTrade) and then wait
\* requested and fulfilled; and an invocation one of whose steps failed has
\* returned no success string.
C12_SuccessOnlyAfterConfirmation ==
    \A i \in Slots :
        LET t == result[i].text
        IN  /\ kind[i] = "createERC4626Vault" /\ HasPrefix(t, "Successfully deployed") =>
                 /\ Methods(calls[i]) = << "deploy", "waitForDeployment", "getAddress" >>
                 /\ Len(obs[i]) = 4 /\ AllFulfilled(obs[i], 1)
            /\ kind[i] = "gorilliMemeTrade" /\ HasPrefix(t, "Successfully executed") =>
                 /\ Methods(calls[i]) = << "invokeContract", "wait" >>
                 /\ Len(obs[i]) = 3 /\ AllFulfilled(obs[i], 2)
            /\ kind[i] = "gorilli_trade" /\ HasPrefix(t, "Gorilli - Traded") =>
                 /\ Methods(calls[i]) = << "createTrade", "wait" >>
                 /\ Len(obs[i]) = 2 /\ AllFulfilled(obs[i], 1)
            /\ (\E p \in 1..Len(obs[i]) : obs[i][p].what = "rejected") =>
                 ~IsSuccessString(t)

\* a vault deployment went through its three requests and reported success
C12_Witness ==
    \E i \in Slots :
        /\ kind[i] = "createERC4626Vault"
        /\ Len(calls[i]) = 3
        /\ HasPrefix(result[i].text, "Successfully deployed")

=============================================================================
